---- MODULE Spec2Model ----
(***************************************************************************)
(* Model of the deposition controller (Deposition), its checkpoint file    *)
(* (status.yaml) and the iteration cycle (Iteration) of                    *)
(* mmtn/deposition-molecular-dynamics.                                     *)
(*                                                                         *)
(* Two revisions of the controller live in the package and are modelled    *)
(* side by side, selected by `version`:                                    *)
(*   "A"  deposition/Deposition.py + deposition/Iteration.py               *)
(*   "B"  deposition/deposition.py + deposition/iteration.py               *)
(* The process can be killed at every step boundary and started again;     *)
(* the file system (status file, directories, archives) survives a kill,   *)
(* the in-memory objects do not.                                           *)
(***************************************************************************)
EXTENDS Integers, Sequences, FiniteSets, TLC

\* ---------------------------------------------------------------- bounds
MaxTotalIterations == 3
MaxSequentialFailures == 2
MaxStarts == 2

\* ------------------------------------------------------------- constants
None == [none |-> TRUE]
NoExit == -1

Versions == {"A", "B"}

\* no library call is being analysed (the controller specification)
NoCall == [fn |-> "none"]

working_dir == "current"
success_dir == "iterations"
failure_dir == "failed"
directories == {working_dir, success_dir, failure_dir}

\* pickle_location values: 0 is "initial_positions.pickle", n > 0 is
\* "iterations/<n>/deposition<n>.pickle"
initial_positions == 0

VARIABLES
    version,          \* which revision of the controller runs
    max_iterations,   \* settings: max_total_iterations
    max_failures,     \* settings: max_sequential_failures
    strict,           \* settings: strict structural analysis flag
    pc,               \* control point of the controller process
    caller,           \* who called write_status: "initial_setup" or "run"
    status,           \* in-memory checkpoint (None before it is known)
    iteration,        \* the live Iteration object (None outside a cycle)
    exit_code,        \* value returned by run (NoExit until it returns)
    status_file,      \* status.yaml on disk
    initial_pickle,   \* initial_positions.pickle exists on disk
    dirs,             \* directories that exist on disk
    working,          \* artifacts in the working directory
    success_archive,  \* iteration numbers archived under iterations/
    failure_archive,  \* iteration numbers archived under failed/
    starts,           \* number of times the process was started
    run_fresh,        \* this process found no status file at startup
    setup_ran,        \* this process executed initial_setup
    run_iters,        \* iterations completed by this process
    run_passes,       \* accepted iterations of this process
    run_fails,        \* soft-failed iterations of this process
    last_written,     \* last checkpoint whose write completed (any process)
    killed_in,        \* control point at which the previous process was killed
    events,           \* what the live iteration has done so far, in order
    error,            \* exception that ended the process ("none" if none)
    archive_contents, \* <<directory, n, artifact>> for every archived file
    call              \* the library call under analysis (function-level specs)

vars == <<version, max_iterations, max_failures, strict, pc, caller, status,
          iteration, exit_code, status_file, initial_pickle, dirs, working,
          success_archive, failure_archive, starts, run_fresh, setup_ran,
          run_iters, run_passes, run_fails, last_written, killed_in, events,
          error, archive_contents, call>>

settings == <<version, max_iterations, max_failures, strict>>
disk == <<status_file, initial_pickle, dirs, working, success_archive,
          failure_archive>>
counters == <<run_iters, run_passes, run_fails>>

\* ------------------------------------------------------- status and YAML
Status(n, s, t, p) ==
    [iteration_number |-> n, sequential_failures |-> s,
     total_failures |-> t, pickle_location |-> p]

\* variant: the campaign is numbered from zero
InitialStatus_FromZero == Status(0, 0, 0, initial_positions)

InitialStatus == Status(1, 0, 0, initial_positions)

\* variant: the two failure counters are stored under each other's key
as_dict_SwappedCounters(s) ==
    [k \in {"iteration_number", "last_updated", "pickle_location",
            "sequential_failures", "total_failures"} |->
        CASE k = "iteration_number" -> s.iteration_number
          [] k = "last_updated" -> 0
          [] k = "pickle_location" -> s.pickle_location
          [] k = "sequential_failures" -> s.total_failures
          [] k = "total_failures" -> s.sequential_failures]

\* the dictionary handed to yaml.dump
as_dict(s) ==
    [k \in {"iteration_number", "last_updated", "pickle_location",
            "sequential_failures", "total_failures"} |->
        CASE k = "iteration_number" -> s.iteration_number
          [] k = "last_updated" -> 0
          [] k = "pickle_location" -> s.pickle_location
          [] k = "sequential_failures" -> s.sequential_failures
          [] k = "total_failures" -> s.total_failures]

\* yaml.dump writes one "key: value" line per key, keys sorted
SortedKeys == <<"iteration_number", "last_updated", "pickle_location",
                "sequential_failures", "total_failures">>

yaml_dump(d) == [i \in 1..Len(SortedKeys) |-> <<SortedKeys[i], d[SortedKeys[i]]>>]

\* yaml.safe_load: an empty document loads as None, otherwise a mapping
Lookup(doc, key) == doc[CHOOSE i \in 1..Len(doc) : doc[i][1] = key][2]

NoFile == [exists |-> FALSE, content |-> <<>>]
File(doc) == [exists |-> TRUE, content |-> doc]

\* read_status outcome: "none" (FileNotFoundError caught), "error"
\* (None is not subscriptable) or "ok" with the Status read
read_status(f) ==
    IF ~f.exists THEN [result |-> "none", status |-> None]
    ELSE IF f.content = <<>> THEN [result |-> "error", status |-> None]
    ELSE [result |-> "ok",
          status |-> Status(Lookup(f.content, "iteration_number"),
                            Lookup(f.content, "sequential_failures"),
                            Lookup(f.content, "total_failures"),
                            Lookup(f.content, "pickle_location"))]

\* ------------------------------------------------------- controller loop
\* variant: the last permitted iteration is left out
LoopCondition_Strict(s) ==
    (s.iteration_number < max_iterations) /\ (s.sequential_failures <= max_failures)

\* the while condition of Deposition.run (revision A)
LoopCondition(s) ==
    (s.iteration_number <= max_iterations) /\ (s.sequential_failures <= max_failures)

\* the exit code chosen once the loop is left
ExitCode(s) ==
    IF s.iteration_number > max_iterations THEN 0
    ELSE IF s.sequential_failures > max_failures THEN 1
    ELSE 2

\* variant: the state reference is never moved forward
NextStatus_KeepsLocation(s, success, location) ==
    Status(s.iteration_number + 1,
           IF success THEN 0 ELSE s.sequential_failures + 1,
           IF success THEN s.total_failures ELSE s.total_failures + 1,
           s.pickle_location)

\* variant: a soft failure is not added to total_failures
NextStatus_TotalNotCounted(s, success, location) ==
    Status(s.iteration_number + 1,
           IF success THEN 0 ELSE s.sequential_failures + 1,
           s.total_failures,
           location)

\* variant: success resets total_failures instead of sequential_failures
NextStatus_WrongReset(s, success, location) ==
    Status(s.iteration_number + 1,
           IF success THEN s.sequential_failures ELSE s.sequential_failures + 1,
           IF success THEN 0 ELSE s.total_failures + 1,
           location)

\* counters after one Iteration.run returned (success, pickle_location)
NextStatus(s, success, location) ==
    Status(s.iteration_number + 1,
           IF success THEN 0 ELSE s.sequential_failures + 1,
           IF success THEN s.total_failures ELSE s.total_failures + 1,
           location)

Running == {"run", "mkdirs", "loop", "relaxation", "deposition", "finalisation",
            "copytree", "rmtree", "mkdir", "update", "write_open", "write_dump",
            "exit_check"}

Artifact(name, n) == <<name, n>>

Init ==
    /\ version \in Versions
    /\ max_iterations \in 1..MaxTotalIterations
    /\ max_failures \in 1..MaxSequentialFailures
    /\ strict \in BOOLEAN
    /\ pc = "stopped"
    /\ caller = "run"
    /\ status = None
    /\ iteration = None
    /\ exit_code = NoExit
    /\ status_file = NoFile
    /\ initial_pickle = FALSE
    /\ dirs = {}
    /\ working = {}
    /\ success_archive = {}
    /\ failure_archive = {}
    /\ starts = 0
    /\ run_fresh = FALSE
    /\ setup_ran = FALSE
    /\ run_iters = 0
    /\ run_passes = 0
    /\ run_fails = 0
    /\ last_written = None
    /\ killed_in = "none"
    /\ events = <<>>
    /\ error = "none"
    /\ archive_contents = {}
    /\ call = NoCall

\* Deposition.__init__: read the status file
Start ==
    /\ pc \in {"stopped", "done", "crashed"}
    /\ starts < MaxStarts
    /\ starts' = starts + 1
    /\ LET r == read_status(status_file) IN
         /\ status' = r.status
         /\ pc' = IF r.result = "error" THEN "crashed" ELSE "run"
         /\ error' = IF r.result = "error" THEN "TypeError" ELSE "none"
         /\ run_fresh' = (r.result = "none")
    /\ events' = <<>>
    /\ iteration' = None
    /\ exit_code' = NoExit
    /\ caller' = "run"
    /\ setup_ran' = FALSE
    /\ run_iters' = 0
    /\ run_passes' = 0
    /\ run_fails' = 0
    /\ killed_in' = IF pc = "stopped" THEN killed_in ELSE "none"
    /\ UNCHANGED <<settings, disk, last_written, archive_contents, call>>

\* Deposition.run, first lines, with a checkpoint: no initial_setup
SkipSetup ==
    /\ pc = "run"
    /\ status # None
    /\ pc' = "loop"
    /\ UNCHANGED <<settings, caller, status, iteration, exit_code, disk, starts,
                   run_fresh, setup_ran, counters, last_written, killed_in, events, error,
                   archive_contents, call>>

\* initial_setup up to write_state: counters reset, substrate seeded
InitialSetup ==
    /\ pc = "run"
    /\ status = None
    /\ status' = InitialStatus
    /\ initial_pickle' = TRUE
    /\ setup_ran' = TRUE
    /\ pc' = "mkdirs"
    /\ UNCHANGED <<settings, caller, iteration, exit_code, status_file, dirs,
                   working, success_archive, failure_archive, starts, run_fresh,
                   counters, last_written, killed_in, events, error,
                   archive_contents, call>>

\* io.make_directories: create each directory, fail if any was present
make_directories ==
    /\ pc = "mkdirs"
    /\ dirs' = dirs \cup directories
    /\ IF dirs \cap directories # {}
         THEN /\ pc' = "crashed"
              /\ error' = "FileExistsError"
              /\ caller' = caller
         ELSE /\ pc' = "write_open"
              /\ error' = error
              /\ caller' = "initial_setup"
    /\ UNCHANGED <<settings, status, iteration, exit_code, status_file,
                   initial_pickle, working, success_archive, failure_archive,
                   starts, run_fresh, setup_ran, counters, last_written,
                   killed_in, events, archive_contents, call>>

\* write_status, open(..., "w"): the file is truncated
write_status_open ==
    /\ pc = "write_open"
    /\ status_file' = File(<<>>)
    /\ pc' = "write_dump"
    /\ UNCHANGED <<settings, caller, status, iteration, exit_code,
                   initial_pickle, dirs, working, success_archive,
                   failure_archive, starts, run_fresh, setup_ran, counters,
                   last_written, killed_in, events, error,
                   archive_contents, call>>

\* write_status, yaml.dump and close: the document reaches the disk
write_status_dump ==
    /\ pc = "write_dump"
    /\ status_file' = File(yaml_dump(as_dict(status)))
    /\ last_written' = status
    /\ pc' = IF caller = "run" /\ version = "B" THEN "exit_check" ELSE "loop"
    /\ UNCHANGED <<settings, caller, status, iteration, exit_code,
                   initial_pickle, dirs, working, success_archive,
                   failure_archive, starts, run_fresh, setup_ran, counters,
                   killed_in, events, error,
                   archive_contents, call>>

\* the Iteration object built by Deposition.run
Iteration(n, location) ==
    [iteration_number |-> n, pickle_location |-> location, success |-> FALSE]

\* io.read_state can open the pickle at this location
PickleExists(location) ==
    IF location = initial_positions THEN initial_pickle
    ELSE location \in success_archive

\* top of the loop body: construct the Iteration
StartIteration ==
    /\ pc = "loop"
    /\ version = "B" \/ LoopCondition(status)
    /\ iteration' = Iteration(status.iteration_number, status.pickle_location)
    /\ pc' = "relaxation"
    /\ events' = <<>>
    /\ UNCHANGED <<settings, caller, status, exit_code, disk, starts, run_fresh,
                   setup_ran, counters, last_written, killed_in, error,
                   archive_contents, call>>

\* revision A: the while condition is false, run returns its exit code
Return ==
    /\ pc = "loop"
    /\ version = "A"
    /\ ~LoopCondition(status)
    /\ exit_code' = ExitCode(status)
    /\ pc' = "done"
    /\ UNCHANGED <<settings, caller, status, iteration, disk, starts, run_fresh,
                   setup_ran, counters, last_written, killed_in, events, error,
                   archive_contents, call>>

\* revision B: the test at the bottom of `while True`; Continue = no return
Continue == 2
ExitCheck(s) ==
    IF s.iteration_number > max_iterations THEN 0
    ELSE IF s.sequential_failures > max_failures THEN 1
    ELSE Continue

ReturnOrLoop ==
    /\ pc = "exit_check"
    /\ IF ExitCheck(status) = Continue
         THEN /\ pc' = "loop"
              /\ exit_code' = exit_code
         ELSE /\ pc' = "done"
              /\ exit_code' = ExitCheck(status)
    /\ UNCHANGED <<settings, caller, status, iteration, disk, starts, run_fresh,
                   setup_ran, counters, last_written, killed_in, events, error,
                   archive_contents, call>>

call_process_Swallowed(engine_ok, next_step) ==
    IF engine_ok
      THEN pc' = next_step /\ error' = error
      ELSE pc' = next_step /\ error' = "CalledProcessError"

\* Iteration.call_process: subprocess.run(..., check=True) returns when the
\* engine exits with 0 and raises CalledProcessError otherwise
call_process(engine_ok, next_step) ==
    IF engine_ok
      THEN pc' = next_step /\ error' = error
      ELSE pc' = "crashed" /\ error' = "CalledProcessError"

relaxation_SkipDeposition ==
    /\ pc = "relaxation"
    /\ IF ~PickleExists(iteration.pickle_location) \/ working_dir \notin dirs
         THEN /\ pc' = "crashed"
              /\ error' = "FileNotFoundError"
              /\ working' = working
              /\ events' = events
         ELSE \E engine_ok \in BOOLEAN :
              /\ working' = working
                    \cup {Artifact("relaxation.input", iteration.iteration_number)}
                    \cup (IF engine_ok
                            THEN {Artifact("relaxation.pickle", iteration.iteration_number)}
                            ELSE {})
              /\ events' = IF engine_ok THEN Append(events, "relaxation")
                           ELSE events
              /\ call_process(engine_ok, "finalisation")
    /\ UNCHANGED <<settings, caller, status, iteration, exit_code, status_file,
                   initial_pickle, dirs, success_archive, failure_archive,
                   starts, run_fresh, setup_ran, counters, last_written,
                   killed_in, archive_contents, call>>

\* Iteration.relaxation: read state, write inputs, run the engine, save
relaxation ==
    /\ pc = "relaxation"
    /\ IF ~PickleExists(iteration.pickle_location) \/ working_dir \notin dirs
         THEN /\ pc' = "crashed"
              /\ error' = "FileNotFoundError"
              /\ working' = working
              /\ events' = events
         ELSE \E engine_ok \in BOOLEAN :
              /\ working' = working
                    \cup {Artifact("relaxation.input", iteration.iteration_number)}
                    \cup (IF engine_ok
                            THEN {Artifact("relaxation.pickle", iteration.iteration_number)}
                            ELSE {})
              /\ events' = IF engine_ok THEN Append(events, "relaxation")
                           ELSE events
              /\ call_process(engine_ok, "deposition")
    /\ UNCHANGED <<settings, caller, status, iteration, exit_code, status_file,
                   initial_pickle, dirs, success_archive, failure_archive,
                   starts, run_fresh, setup_ran, counters, last_written,
                   killed_in, archive_contents, call>>

\* Iteration.deposition: read relaxed state, inject, run the engine, save
deposition ==
    /\ pc = "deposition"
    /\ IF Artifact("relaxation.pickle", iteration.iteration_number) \notin working
         THEN /\ pc' = "crashed"
              /\ error' = "FileNotFoundError"
              /\ working' = working
              /\ events' = events
         ELSE \E engine_ok \in BOOLEAN :
              /\ working' = working
                    \cup {Artifact("deposition.input", iteration.iteration_number)}
                    \cup (IF engine_ok
                            THEN {Artifact("deposition.pickle", iteration.iteration_number)}
                            ELSE {})
              /\ events' = IF engine_ok
                             THEN events \o <<"injection", "deposition">>
                             ELSE Append(events, "injection")
              /\ call_process(engine_ok, "finalisation")
    /\ UNCHANGED <<settings, caller, status, iteration, exit_code, status_file,
                   initial_pickle, dirs, success_archive, failure_archive,
                   starts, run_fresh, setup_ran, counters, last_written,
                   killed_in, archive_contents, call>>

\* settings.Settings defines no __getitem__: subscripting it raises TypeError
SettingsSubscriptable == FALSE

\* Iteration.check_outcome: what a failed structural analysis leads to.
\* Revision A always records a soft failure.  Revision B evaluates
\* self.settings["strict_structural_analysis"] inside the except block, on
\* the Settings object it reads by attribute everywhere else: the subscript
\* raises before the flag is seen; were it readable, strict would raise.
FailureIsFatal == version = "B" /\ (~SettingsSubscriptable \/ strict)

\* the exception leaving check_outcome when the failure is fatal
FatalError == IF SettingsSubscriptable THEN "RuntimeError" ELSE "TypeError"

\* Iteration.finalisation, first half: structural analysis, destination
check_outcome ==
    /\ pc = "finalisation"
    /\ \E valid \in BOOLEAN :
         IF ~valid /\ FailureIsFatal
           THEN /\ pc' = "crashed"
                /\ error' = FatalError
                /\ iteration' = iteration
                /\ events' = Append(events, "validation_failed")
           ELSE /\ pc' = "copytree"
                /\ error' = error
                /\ iteration' =
                     [iteration EXCEPT !.success = valid,
                        !.pickle_location =
                            IF valid THEN iteration.iteration_number ELSE @]
                /\ events' = Append(events, IF valid THEN "validation_passed"
                                            ELSE "validation_failed")
    /\ UNCHANGED <<settings, caller, status, exit_code, disk, starts, run_fresh,
                   setup_ran, counters, last_written, killed_in,
                   archive_contents, call>>

destination_directory_Swapped(it) ==
    IF it.success THEN failure_dir ELSE success_dir

\* Iteration.finalisation: success_dir when accepted, failure_dir otherwise
destination_directory(it) == IF it.success THEN success_dir ELSE failure_dir

\* shutil.copytree(working_dir, destination): fails if destination exists
copytree ==
    /\ pc = "copytree"
    /\ LET n == iteration.iteration_number
           archive == IF iteration.success THEN success_archive ELSE failure_archive
       IN IF n \in archive
            THEN /\ pc' = "crashed"
                 /\ error' = "FileExistsError"
                 /\ UNCHANGED <<success_archive, failure_archive, events,
                                archive_contents>>
            ELSE /\ pc' = "rmtree"
                 /\ error' = error
                 /\ events' = Append(events, "archive")
                 /\ archive_contents' = archive_contents \cup
                      {<<destination_directory(iteration), n, a>> : a \in working}
                 /\ success_archive' =
                      IF iteration.success THEN success_archive \cup {n}
                      ELSE success_archive
                 /\ failure_archive' =
                      IF iteration.success THEN failure_archive
                      ELSE failure_archive \cup {n}
    /\ UNCHANGED <<settings, caller, status, iteration, exit_code, status_file,
                   initial_pickle, dirs, working, starts, run_fresh, setup_ran,
                   counters, last_written, killed_in, call>>

\* shutil.rmtree(working_dir)
rmtree ==
    /\ pc = "rmtree"
    /\ dirs' = dirs \ {working_dir}
    /\ working' = {}
    /\ pc' = "mkdir"
    /\ UNCHANGED <<settings, caller, status, iteration, exit_code, status_file,
                   initial_pickle, success_archive, failure_archive, starts,
                   run_fresh, setup_ran, counters, last_written, killed_in, events, error,
                   archive_contents, call>>

\* os.mkdir(working_dir); Iteration.run returns
mkdir ==
    /\ pc = "mkdir"
    /\ dirs' = dirs \cup {working_dir}
    /\ pc' = "update"
    /\ UNCHANGED <<settings, caller, status, iteration, exit_code, status_file,
                   initial_pickle, working, success_archive, failure_archive,
                   starts, run_fresh, setup_ran, counters, last_written, killed_in, events, error,
                   archive_contents, call>>

\* Deposition.run, loop body after iteration.run(): update the counters
UpdateCounters ==
    /\ pc = "update"
    /\ status' = NextStatus(status, iteration.success, iteration.pickle_location)
    /\ run_iters' = run_iters + 1
    /\ run_passes' = IF iteration.success THEN run_passes + 1 ELSE run_passes
    /\ run_fails' = IF iteration.success THEN run_fails ELSE run_fails + 1
    /\ iteration' = None
    /\ caller' = "run"
    /\ pc' = "write_open"
    /\ UNCHANGED <<settings, exit_code, disk, starts, run_fresh, setup_ran,
                   last_written, killed_in, events, error,
                   archive_contents, call>>

\* the process is killed: memory is lost, the disk stays as it is
Kill ==
    /\ pc \in Running
    /\ pc' = "stopped"
    /\ status' = None
    /\ iteration' = None
    /\ killed_in' = pc
    /\ events' = <<>>
    /\ UNCHANGED <<settings, caller, exit_code, disk, starts, run_fresh,
                   setup_ran, counters, last_written, error,
                   archive_contents, call>>

Next ==
    \/ Start
    \/ SkipSetup
    \/ InitialSetup
    \/ make_directories
    \/ write_status_open
    \/ write_status_dump
    \/ StartIteration
    \/ Return
    \/ ReturnOrLoop
    \/ relaxation
    \/ deposition
    \/ check_outcome
    \/ copytree
    \/ rmtree
    \/ mkdir
    \/ UpdateCounters
    \/ Kill

Spec == Init /\ [][Next]_vars

\* ------------------------------------------------------------ properties
Stored == read_status(status_file)

\* C1: a fresh campaign whose iterations all pass validation runs exactly
\* max_total_iterations iterations, then run returns 0 with
\* sequential_failures = 0.
C1_AllPassRunsMaxIterations ==
    (pc = "done" /\ run_fresh /\ run_fails = 0) =>
        /\ run_iters = max_iterations
        /\ exit_code = 0
        /\ status.sequential_failures = 0

C1_Witness ==
    /\ pc = "done" /\ run_fresh /\ run_fails = 0
    /\ max_iterations >= 2
    /\ run_passes = max_iterations

\* C2: a fresh campaign whose iterations all fail validation returns 1 once
\* sequential_failures exceeds max_sequential_failures, with
\* total_failures = iteration_number - 1, for every pair of limits.
C2_AllFailExitsOne ==
    (pc = "done" /\ run_fresh /\ run_passes = 0
        /\ status.sequential_failures > max_failures) =>
        /\ exit_code = 1
        /\ status.total_failures = status.iteration_number - 1

\* C3: run returns 1 whenever it ends with sequential_failures above the
\* budget, and returns 0 only when iteration_number exceeds the maximum.
C3_ExitCodeDistinguishes ==
    pc = "done" =>
        /\ (status.sequential_failures > max_failures => exit_code = 1)
        /\ (exit_code = 0 => status.iteration_number > max_iterations)

CheckpointOK(s) ==
    /\ s.iteration_number >= 1
    /\ s.sequential_failures >= 0
    /\ s.total_failures >= 0
    /\ s.sequential_failures <= s.total_failures

C5_CheckpointInvariant ==
    /\ status # None => CheckpointOK(status)
    /\ Stored.result = "ok" => CheckpointOK(Stored.status)

C5_Witness ==
    /\ status # None
    /\ status.sequential_failures = 1
    /\ status.total_failures = 2
    /\ Stored.result = "ok" /\ Stored.status = status

\* C6: once the checkpoint of some iteration k >= 1 has been written, every
\* later start of the controller reads that checkpoint back and every
\* iteration started afterwards carries the checkpointed iteration number.
C6_RestartResumes ==
    /\ [][(starts' = starts + 1 /\ last_written # None
             /\ last_written.iteration_number >= 2) =>
            (pc' = "run" /\ status' = last_written)]_vars
    /\ [][(pc = "loop" /\ pc' = "relaxation") =>
            iteration'.iteration_number = last_written.iteration_number]_vars

\* C7: after a kill in the middle of an iteration, the restarted
\* controller does not start an iteration on the working directory that
\* still holds the artifacts of the interrupted one.
MidIteration == {"deposition", "finalisation", "copytree"}

C7_PartialWorkingDirDetected ==
    (pc = "relaxation" /\ run_iters = 0 /\ killed_in \in MidIteration) =>
        working = {}

\* C8: once a checkpoint has been written, a reader of the status file
\* always finds a complete checkpoint, the last one written.
C8_StatusFileAtomic ==
    (status_file.exists /\ last_written # None) =>
        (Stored.result = "ok" /\ Stored.status = last_written)

\* C9: after write_status, read_status returns the checkpoint that was
\* written: iteration_number, sequential_failures, total_failures and
\* pickle_location.
C9_RoundTrip ==
    [][(pc = "write_dump" /\ pc' \in {"loop", "exit_check"}) =>
         read_status(status_file') = [result |-> "ok", status |-> status]]_vars

C9_Witness ==
    /\ pc \in {"loop", "exit_check"}
    /\ status = Status(3, 0, 1, 2)
    /\ read_status(status_file) = [result |-> "ok", status |-> status]

PhaseOrder == <<"relaxation", "injection", "deposition", "validation", "archive">>
Phase(e) ==
    IF e \in {"validation_passed", "validation_failed"} THEN "validation" ELSE e
Finalised == {"rmtree", "mkdir", "update"}

\* C11: within an iteration the phases happen in the order relaxation,
\* injection, deposition, validation, archiving, none skipped: what the
\* iteration has done so far is always an initial part of that order,
\* archiving starts only with the deposition output present and validated
\* (passed or failed), and an archived iteration went through every phase.
C11_PhaseOrder ==
    /\ Len(events) <= Len(PhaseOrder)
    /\ \A i \in 1..Len(events) :
         i <= Len(PhaseOrder) => Phase(events[i]) = PhaseOrder[i]
    /\ pc = "copytree" =>
         /\ Len(events) = 4
         /\ Artifact("deposition.pickle", iteration.iteration_number) \in working
    /\ pc \in Finalised => Len(events) = Len(PhaseOrder)

C11_Witness ==
    /\ pc = "update"
    /\ events = <<"relaxation", "injection", "deposition", "validation_failed",
                  "archive">>

EngineFails == error' = "CalledProcessError" /\ error # "CalledProcessError"

\* C12: when the engine exits non-zero in the relaxation or the deposition
\* phase, the process ends there with the error: the counters in memory,
\* the numbers of iterations and failures counted and the status file stay
\* as they were, and nothing but a new process start follows.
C12_EngineFailureIsFatal ==
    /\ [][EngineFails =>
            /\ pc \in {"relaxation", "deposition"}
            /\ pc' = "crashed"
            /\ UNCHANGED <<status, status_file, counters>>]_vars
    /\ [][error = "CalledProcessError" => starts' = starts + 1]_vars

C12_Witness ==
    /\ pc = "crashed"
    /\ error = "CalledProcessError"
    /\ events = <<"relaxation", "injection">>
    /\ status = Status(2, 1, 1, initial_positions)
    /\ Stored.status = status

ValidationFails ==
    /\ pc = "finalisation"
    /\ events' = Append(events, "validation_failed")

\* C13: without the strict flag, a failed structural validation stays
\* inside the iteration: nothing is raised, the iteration ends with
\* success = False and goes on to archive its files as a failure.
C13_NonStrictFailureIsSoft ==
    [][(ValidationFails /\ ~strict) =>
         /\ pc' = "copytree"
         /\ error' = "none"
         /\ ~iteration'.success]_vars

\* C14: in the revision that knows the strict flag, a failed structural
\* validation ends the process with an error exactly when the configured
\* flag is set, and is a soft failure exactly when it is not.
C14_StrictFollowsFlag ==
    [][(ValidationFails /\ version = "B") =>
         (pc' = "crashed") = strict]_vars

Archived(d, n) == {a \in working : <<d, n, a>> \in archive_contents}
Accepted == events[4] = "validation_passed"

\* C15: the copy made by finalisation puts every file of the working
\* directory under the success directory of n when the iteration was
\* accepted and under the failure directory of n otherwise, leaving the
\* other archive as it was; once finalisation is over the working
\* directory exists and is empty.
C15_FinalisationArchives ==
    /\ [][(pc = "copytree" /\ pc' = "rmtree") =>
            LET n == iteration.iteration_number
                d == IF Accepted THEN success_dir ELSE failure_dir
            IN /\ \A a \in working : <<d, n, a>> \in archive_contents'
               /\ \A t \in archive_contents' \ archive_contents :
                     t[1] = d /\ t[2] = n
               /\ n \in (IF Accepted THEN success_archive'
                                     ELSE failure_archive')
               /\ IF Accepted THEN failure_archive' = failure_archive
                              ELSE success_archive' = success_archive]_vars
    /\ [](pc = "update" => working = {} /\ working_dir \in dirs)

C15_Witness ==
    /\ pc = "update"
    /\ iteration.iteration_number = 2
    /\ Accepted
    /\ <<success_dir, 2, Artifact("deposition.pickle", 2)>> \in archive_contents
    /\ <<failure_dir, 1, Artifact("relaxation.input", 1)>> \in archive_contents
    /\ working = {}

Max0(i) == IF i > 0 THEN i ELSE 0
IterationsStarted == run_iters + (IF iteration = None THEN 0 ELSE 1)

\* C16: a process that starts from a checkpoint with iteration_number k
\* starts at most max_total_iterations - k + 1 iterations (none when k is
\* already past the maximum).
C16_BoundedIterations ==
    status # None =>
        LET k == status.iteration_number - run_iters
        IN IterationsStarted <= Max0(max_iterations - k + 1)

\* ------------------------------------------------ library calls analysed
\* The specifications below analyse one library call at a time; the
\* controller is not running and its state stays as constructed.
controller == <<version, max_iterations, max_failures, strict, pc, caller,
                status, iteration, exit_code, status_file, initial_pickle,
                dirs, working, success_archive, failure_archive, starts,
                run_fresh, setup_ran, run_iters, run_passes, run_fails,
                last_written, killed_in, events, error, archive_contents>>

ControllerAtRest ==
    /\ version = "B"
    /\ max_iterations = 1
    /\ max_failures = 1
    /\ strict = FALSE
    /\ pc = "stopped"
    /\ caller = "run"
    /\ status = None
    /\ iteration = None
    /\ exit_code = NoExit
    /\ status_file = NoFile
    /\ initial_pickle = FALSE
    /\ dirs = {}
    /\ working = {}
    /\ success_archive = {}
    /\ failure_archive = {}
    /\ starts = 0
    /\ run_fresh = FALSE
    /\ setup_ran = FALSE
    /\ run_iters = 0
    /\ run_passes = 0
    /\ run_fails = 0
    /\ last_written = None
    /\ killed_in = "none"
    /\ events = <<>>
    /\ error = "none"
    /\ archive_contents = {}

\* ---------------------------------------- uniform sampling in a polygon
\* Lengths are integers on a grid fine enough that no candidate point
\* falls on an edge of the polygon: corners have coordinates that are
\* multiples of 4 (tilt: of 2), candidates have odd coordinates.
SimulationCells ==
    {[x_min |-> 0, x_max |-> w, y_min |-> 0, y_max |-> 4, tilt_xy |-> t] :
        w \in {0, 4}, t \in {0, 2}}

\* randomisation.random_position: the four corners, in drawing order
polygon_coordinates(cell) ==
    <<<<cell.x_min, cell.y_min>>,
      <<cell.x_max, cell.y_min>>,
      <<cell.x_max + cell.tilt_xy, cell.y_max>>,
      <<cell.x_min + cell.tilt_xy, cell.y_max>>>>

SetMin(S) == CHOOSE m \in S : \A e \in S : m <= e
SetMax(S) == CHOOSE m \in S : \A e \in S : m >= e

\* matplotlib Path.get_extents: the bounding box of the corners
get_extents(polygon) ==
    LET xs == {polygon[i][1] : i \in 1..Len(polygon)}
        ys == {polygon[i][2] : i \in 1..Len(polygon)}
    IN [xmin |-> SetMin(xs), xmax |-> SetMax(xs),
        ymin |-> SetMin(ys), ymax |-> SetMax(ys)]

\* np.random.uniform(low, high): low itself when the interval is empty
uniform(low, high) ==
    IF low = high THEN {low} ELSE {v \in low..high : v % 2 = 1}

\* matplotlib Path.contains_point for the parallelogram drawn by
\* polygon_coordinates: strictly between the two pairs of opposite edges
contains_point(polygon, point) ==
    LET h == polygon[4][2] - polygon[1][2]
        w == polygon[2][1] - polygon[1][1]
        t == polygon[4][1] - polygon[1][1]
        d == (point[1] - polygon[1][1]) * h - t * (point[2] - polygon[1][2])
    IN /\ polygon[1][2] < point[2] /\ point[2] < polygon[4][2]
       /\ 0 < d /\ d < w * h

\* distributions.UniformPositionDistribution._max_iterations
UniformMaxIterations == 10000

\* how many draws of the uncapped loop of maths.py are followed
MaxDrawsFollowed == 10001

Samplers == {"UniformPositionDistribution.get_position",
             "maths.get_random_point_in_polygon"}

Sampling(fn, polygon) ==
    [fn |-> fn, polygon |-> polygon, draws |-> 0, outcome |-> "sampling",
     point |-> <<0, 0>>]

SamplerInit ==
    /\ ControllerAtRest
    /\ call \in {Sampling(fn, polygon_coordinates(cell)) :
                    fn \in Samplers, cell \in SimulationCells}

\* one draw of a candidate in the bounding box and the containment test
Draw ==
    LET bbox == get_extents(call.polygon) IN
    \E x \in uniform(bbox.xmin, bbox.xmax), y \in uniform(bbox.ymin, bbox.ymax) :
       call' = IF contains_point(call.polygon, <<x, y>>)
                 THEN [call EXCEPT !.draws = @ + 1, !.outcome = "returned",
                                   !.point = <<x, y>>]
                 ELSE [call EXCEPT !.draws = @ + 1]

\* UniformPositionDistribution.get_position: one pass of the for loop
get_position ==
    /\ call.fn = "UniformPositionDistribution.get_position"
    /\ call.outcome = "sampling"
    /\ call.draws < UniformMaxIterations
    /\ Draw
    /\ UNCHANGED controller

\* UniformPositionDistribution.get_position: the loop ran out
get_position_failed ==
    /\ call.fn = "UniformPositionDistribution.get_position"
    /\ call.outcome = "sampling"
    /\ call.draws = UniformMaxIterations
    /\ call' = [call EXCEPT !.outcome = "RuntimeError"]
    /\ UNCHANGED controller

\* maths.get_random_point_in_polygon: one pass of `while True`
get_random_point_in_polygon ==
    /\ call.fn = "maths.get_random_point_in_polygon"
    /\ call.outcome = "sampling"
    /\ call.draws < MaxDrawsFollowed
    /\ Draw
    /\ UNCHANGED controller

SamplerNext ==
    \/ get_position
    \/ get_position_failed
    \/ get_random_point_in_polygon

SamplerSpec == SamplerInit /\ [][SamplerNext]_vars

\* C17: uniform sampling in a polygon draws at most 10,000 candidates on
\* every path that yields a random position, returns only points inside
\* the polygon, and is over (with a point or an error) once the 10,000
\* draws are used up.
C17_SamplingCapped ==
    /\ call.draws <= UniformMaxIterations
    /\ call.outcome = "returned" => contains_point(call.polygon, call.point)
    /\ call.outcome = "RuntimeError" => call.draws = UniformMaxIterations

\* ------------------------------------------- velocity of a new particle
\* Velocities are integers; the normal distribution can yield any of them.
MaxSpeed == 2
Speeds == (0 - MaxSpeed)..MaxSpeed
TransverseSpeeds == {0 - 1, 0, 1}

\* randomisation.random_velocity, default of max_iterations
velocity_max_iterations == 10000

abs(v) == IF v < 0 THEN 0 - v ELSE v

exceeds_GreaterOrEqual(vz, minimum_velocity) == vz >= minimum_velocity

\* random_velocity: `if vz > minimum_velocity`
exceeds(vz, minimum_velocity) == vz > minimum_velocity

\* random_velocity: np.array((vx, vy, -vz))
new_velocity(vx, vy, vz) == <<vx, vy, 0 - vz>>

\* settings: minimum_velocity is strictly positive
VelocityInit ==
    /\ ControllerAtRest
    /\ call \in {[fn |-> "random_velocity", minimum_velocity |-> m,
                  vx |-> 0, vy |-> 0, ii |-> 0, outcome |-> "vx_vy",
                  velocity |-> <<0, 0, 0>>] : m \in 1..MaxSpeed}

\* random_velocity: vx and vy are drawn once, before the loop
draw_vx_vy ==
    /\ call.fn = "random_velocity"
    /\ call.outcome = "vx_vy"
    /\ \E vx \in TransverseSpeeds, vy \in TransverseSpeeds :
          call' = [call EXCEPT !.vx = vx, !.vy = vy, !.outcome = "sampling"]
    /\ UNCHANGED controller

\* random_velocity: one pass of the for loop
draw_vz ==
    /\ call.fn = "random_velocity"
    /\ call.outcome = "sampling"
    /\ call.ii < velocity_max_iterations
    /\ \E draw \in Speeds :
          LET vz == abs(draw) IN
          call' = IF exceeds(vz, call.minimum_velocity)
                    THEN [call EXCEPT !.ii = @ + 1, !.outcome = "returned",
                            !.velocity = new_velocity(call.vx, call.vy, vz)]
                    ELSE [call EXCEPT !.ii = @ + 1]
    /\ UNCHANGED controller

\* random_velocity: the loop ran out, ValueError
random_velocity_failed ==
    /\ call.fn = "random_velocity"
    /\ call.outcome = "sampling"
    /\ call.ii = velocity_max_iterations
    /\ call' = [call EXCEPT !.outcome = "ValueError"]
    /\ UNCHANGED controller

VelocityNext ==
    \/ draw_vx_vy
    \/ draw_vz
    \/ random_velocity_failed

VelocitySpec == VelocityInit /\ [][VelocityNext]_vars

\* C18: a velocity returned by random_velocity has a strictly negative
\* z-component whose magnitude is strictly greater than minimum_velocity;
\* vz is drawn at most 10,000 times, and the call ends with ValueError,
\* never with a velocity, exactly when none of the 10,000 draws exceeded
\* the minimum.
C18_VelocityDownwards ==
    /\ call.ii <= velocity_max_iterations
    /\ call.outcome = "returned" =>
          /\ call.velocity[3] < 0
          /\ 0 - call.velocity[3] > call.minimum_velocity
          /\ call.velocity[1] = call.vx /\ call.velocity[2] = call.vy
    /\ call.outcome = "ValueError" =>
          /\ call.ii = velocity_max_iterations
          /\ call.velocity = <<0, 0, 0>>

C18_Witness ==
    /\ call.fn = "random_velocity"
    /\ call.outcome = "returned"
    /\ call.ii = 3
    /\ call.minimum_velocity = 1
    /\ call.velocity = <<1, 0 - 1, 0 - 2>>

\* ------------------------------------------------ injection of particles
\* An element symbol is the sequence of its characters, an entry of the
\* elements list is a string, i.e. again a sequence of characters.
Symbols == {<<"H">>, <<"S", "i">>}

MaxDeposited == 2
MaxSubstrateAtoms == 2

\* cell height and deposition height of the analysed calls
cell_lz == 10
deposition_height == 3
velocity_scaling == 2

\* the first n atoms of a substrate lying in the plane z = 0, at rest
Substrate(n) ==
    [coordinates |-> [i \in 1..n |-> <<i, 0, 0>>],
     elements |-> [i \in 1..n |-> <<"S", "i">>],
     velocities |-> [i \in 1..n |-> <<0, 0, 0>>]]

\* get_surface_height: z = [xyz[2] for xyz in coordinates if xyz[2] < cutoff]
\* with cutoff = lz * 0.8
below_cutoff(lz, coordinates) ==
    {coordinates[i][3] : i \in {j \in 1..Len(coordinates) :
                                    5 * coordinates[j][3] < 4 * lz}}

\* structural_analysis.get_surface_height: highest z in the lower 80 %
get_surface_height(lz, coordinates) == SetMax(below_cutoff(lz, coordinates))

\* Python list(str): one one-character string per character
list(name) == [i \in 1..Len(name) |-> <<name[i]>>]

\* randomisation.py: [deposition_element.name for _ in range(1)]
elements_new_randomisation(name) == <<name>>

\* src/atoms.py: list(deposition_element.name)
elements_new_atoms(name) == list(name)

\* velocities_new * velocity_scaling
scaled(v, scaling) == <<v[1] * scaling, v[2] * scaling, v[3] * scaling>>

Injectors == {"randomisation.append_new_coordinates_and_velocities",
              "atoms.generate"}

InjectionInit ==
    /\ ControllerAtRest
    /\ call \in {[fn |-> fn, deposition_element |-> e, num_deposited |-> n,
                  ii |-> 0, outcome |-> "running",
                  new_z_position |->
                      get_surface_height(cell_lz, Substrate(k).coordinates)
                        + deposition_height,
                  coordinates |-> Substrate(k).coordinates,
                  elements |-> Substrate(k).elements,
                  velocities |-> Substrate(k).velocities,
                  before |-> Substrate(k)] :
                 fn \in Injectors, e \in Symbols, n \in 1..MaxDeposited,
                 k \in 1..MaxSubstrateAtoms}

\* the tail of one pass of the loop: vstack, list +, vstack
Appended(coordinates_new, elements_new, velocities_new) ==
    [call EXCEPT !.ii = @ + 1,
                 !.coordinates = Append(@, coordinates_new),
                 !.elements = @ \o elements_new,
                 !.velocities = Append(@, scaled(velocities_new, velocity_scaling))]

\* append_new_coordinates_and_velocities, monatomic: one pass of the loop
append_new_coordinates_and_velocities ==
    /\ call.fn = "randomisation.append_new_coordinates_and_velocities"
    /\ call.outcome = "running"
    /\ call.ii < call.num_deposited
    /\ \E x \in {1, 3}, vz \in {2, 3} :
          call' = Appended(<<x, 1, call.new_z_position>>,
                           elements_new_randomisation(call.deposition_element),
                           new_velocity(0, 0, vz))
    /\ UNCHANGED controller

\* src/atoms.py generate, monatomic: one pass of the loop
generate ==
    /\ call.fn = "atoms.generate"
    /\ call.outcome = "running"
    /\ call.ii < call.num_deposited
    /\ \E x \in {1, 3}, vz \in {2, 3} :
          call' = Appended(<<x, 1, call.new_z_position>>,
                           elements_new_atoms(call.deposition_element),
                           new_velocity(0, 0, vz))
    /\ UNCHANGED controller

\* both: return coordinates, elements, velocities
return_state ==
    /\ call.fn \in Injectors
    /\ call.outcome = "running"
    /\ call.ii = call.num_deposited
    /\ call' = [call EXCEPT !.outcome = "returned"]
    /\ UNCHANGED controller

InjectionNext ==
    \/ append_new_coordinates_and_velocities
    \/ generate
    \/ return_state

InjectionSpec == InjectionInit /\ [][InjectionNext]_vars

KeepsPrefix(after, before) ==
    /\ Len(after) >= Len(before)
    /\ SubSeq(after, 1, Len(before)) = before

\* C19: after ii monatomic particles have been injected, coordinates,
\* elements and velocities each begin with their old entries, unchanged,
\* and are each exactly ii entries longer, whatever the element symbol; so
\* the three keep the same length.
C19_InjectionOnlyAppends ==
    /\ KeepsPrefix(call.coordinates, call.before.coordinates)
    /\ KeepsPrefix(call.elements, call.before.elements)
    /\ KeepsPrefix(call.velocities, call.before.velocities)
    /\ Len(call.coordinates) = Len(call.before.coordinates) + call.ii
    /\ Len(call.elements) = Len(call.before.elements) + call.ii
    /\ Len(call.velocities) = Len(call.before.velocities) + call.ii

\* ------------------------------------------------- structural analysis
\* Coordinates are integer triples; distances are compared by their
\* squares.  The cell is orthogonal and wider than the bonding cutoff.
add(a, b) == <<a[1] + b[1], a[2] + b[2], a[3] + b[3]>>
subtract(a, b) == <<a[1] - b[1], a[2] - b[2], a[3] - b[3]>>
times(k, v) == <<k * v[1], k * v[2], k * v[3]>>
norm_squared(v) == v[1] * v[1] + v[2] * v[2] + v[3] * v[3]

simulation_cell ==
    [x_vector |-> <<8, 0, 0>>, y_vector |-> <<0, 8, 0>>,
     z_vector |-> <<0, 0, 10>>, z_min |-> 0, z_max |-> 10]

bonding_distance_cutoff == 2

Positions == {<<x, 0, z>> : x \in {0, 1, 4}, z \in {0, 9}}

MaxAtoms == 2

\* states of 1..MaxAtoms atoms at different positions
States ==
    {c \in UNION {[1..n -> Positions] : n \in 1..MaxAtoms} :
        \A i, j \in 1..Len(c) : i # j => c[i] # c[j]}

\* structural_analysis.wrap_periodic_coordinates_in_z: atoms above 80 % of
\* the cell height are moved down by z_vector
wrap_periodic_coordinates_in_z(cell, coordinates) ==
    LET lz == cell.z_max - cell.z_min IN
    [i \in 1..Len(coordinates) |->
        IF 5 * coordinates[i][3] > 4 * lz
          THEN subtract(coordinates[i], cell.z_vector)
          ELSE coordinates[i]]

\* the centre cell is not skipped and the last neighbouring cell is lost
ImageShifts_OriginTwice ==
    <<<<0 - 1, 0 - 1>>, <<0 - 1, 0>>, <<0 - 1, 1>>, <<0, 0 - 1>>,
      <<0, 0>>, <<0, 1>>, <<1, 0 - 1>>, <<1, 0>>>>

\* np.ndindex(3, 3) minus the centre, as (x, y) = (ix - 1, iy - 1)
ImageShifts ==
    <<<<0 - 1, 0 - 1>>, <<0 - 1, 0>>, <<0 - 1, 1>>, <<0, 0 - 1>>,
      <<0, 1>>, <<1, 0 - 1>>, <<1, 0>>, <<1, 1>>>>

\* structural_analysis.generate_periodic_images_xy: the coordinates
\* followed by one shifted copy per neighbouring cell in x and y
generate_periodic_images_xy(cell, coordinates) ==
    LET n == Len(coordinates) IN
    [k \in 1..(9 * n) |->
        LET block == (k - 1) \div n
            atom == coordinates[((k - 1) % n) + 1]
        IN IF block = 0 THEN atom
           ELSE add(atom, add(times(ImageShifts[block][1], cell.x_vector),
                              times(ImageShifts[block][2], cell.y_vector)))]

\* structural_analysis.generate_neighbour_list: per atom, the number of
\* entries of the image list closer than the cutoff
generate_neighbour_list(cell, coordinates, cutoff) ==
    LET wrapped == wrap_periodic_coordinates_in_z(cell, coordinates)
        images == generate_periodic_images_xy(cell, wrapped)
    IN [i \in 1..Len(wrapped) |->
          Cardinality({k \in 1..Len(images) :
              norm_squared(subtract(wrapped[i], images[k])) < cutoff * cutoff})]

DepositionTypes == {"monatomic", "diatomic", "molecule"}

\* structural_analysis.check_min_neighbours: minimum per deposition type
min_neighbours(deposition_type) ==
    IF deposition_type = "monatomic" THEN 1
    ELSE IF deposition_type = "diatomic" THEN 2
    ELSE 0

\* np.any(np.less_equal(neighbour_list, minimum))
too_few_neighbours(neighbour_list, minimum) ==
    \E i \in 1..Len(neighbour_list) : neighbour_list[i] <= minimum

CellShifts == {<<i, j, k>> : i, j, k \in {0 - 1, 0, 1}}

image(cell, position, shift) ==
    add(position, add(times(shift[1], cell.x_vector),
                      add(times(shift[2], cell.y_vector),
                          times(shift[3], cell.z_vector))))

\* utils.generate_neighbour_list: pymatgen get_all_neighbors, the sites
\* (periodic images included, the site itself excluded) within the cutoff
get_all_neighbors(cell, coordinates, cutoff) ==
    [i \in 1..Len(coordinates) |->
        Cardinality({<<j, shift>> \in (1..Len(coordinates)) \X CellShifts :
            /\ ~(j = i /\ shift = <<0, 0, 0>>)
            /\ norm_squared(subtract(coordinates[i],
                   image(cell, coordinates[j], shift))) < cutoff * cutoff})]

\* minimum numbers of neighbours configured for NumNeighboursCheck
ConfiguredMinimum == {0, 1}

NeighbourInit ==
    /\ ControllerAtRest
    /\ call \in
         {[fn |-> "structural_analysis.check_min_neighbours",
           coordinates |-> c, minimum |-> min_neighbours(t),
           deposition_type |-> t, neighbour_list |-> <<>>,
           outcome |-> "called"] : c \in States, t \in DepositionTypes}
         \cup
         {[fn |-> "postprocessing.NumNeighboursCheck.run",
           coordinates |-> c, minimum |-> m,
           deposition_type |-> "any", neighbour_list |-> <<>>,
           outcome |-> "called"] : c \in States, m \in ConfiguredMinimum}

Checked(neighbour_list) ==
    [call EXCEPT !.neighbour_list = neighbour_list,
                 !.outcome = IF too_few_neighbours(neighbour_list, call.minimum)
                               THEN "RuntimeWarning" ELSE "passed"]

\* structural_analysis.check_min_neighbours
check_min_neighbours ==
    /\ call.fn = "structural_analysis.check_min_neighbours"
    /\ call.outcome = "called"
    /\ call' = Checked(generate_neighbour_list(simulation_cell,
                           call.coordinates, bonding_distance_cutoff))
    /\ UNCHANGED controller

\* postprocessing.NumNeighboursCheck.run
NumNeighboursCheck ==
    /\ call.fn = "postprocessing.NumNeighboursCheck.run"
    /\ call.outcome = "called"
    /\ call' = Checked(get_all_neighbors(simulation_cell,
                           call.coordinates, bonding_distance_cutoff))
    /\ UNCHANGED controller

NeighbourNext ==
    \/ check_min_neighbours
    \/ NumNeighboursCheck

NeighbourSpec == NeighbourInit /\ [][NeighbourNext]_vars

\* atom i has no other atom, and no periodic image of another atom,
\* within the bonding cutoff
Isolated(coordinates, i) ==
    \A j \in 1..Len(coordinates), shift \in CellShifts :
        j # i =>
          norm_squared(subtract(coordinates[i],
              image(simulation_cell, coordinates[j], shift)))
            >= bonding_distance_cutoff * bonding_distance_cutoff

\* C20: the minimum-neighbours check raises its warning for every state
\* that holds an isolated atom, for every deposition type and every
\* configured minimum.
C20_IsolatedParticleFails ==
    (/\ call.outcome # "called"
     /\ \E i \in 1..Len(call.coordinates) : Isolated(call.coordinates, i))
       => call.outcome = "RuntimeWarning"

\* ------------------------------------------ bonding at the periodic image
Elements == {"Si", "O"}
deposited_element == "O"
Heights == {0, 2, 3, 9}

\* states of 1..MaxAtoms atoms above each other, with their elements
LabelledStates ==
    UNION {[coordinates : [1..n -> {<<0, 0, z>> : z \in Heights}],
            elements : [1..n -> Elements]] : n \in 1..MaxAtoms}

within_cutoff_Exclusive(distance, cutoff) == distance < cutoff

\* check_bonding_at_image: np.less_equal(distance, bonding_distance_cutoff)
within_cutoff(distance, cutoff) == distance <= cutoff

\* check_bonding_at_image: TRUE when the RuntimeWarning is raised
bonded_to_lower_interface(cell, coordinates, elements, deposited, cutoff) ==
    LET wrapped == wrap_periodic_coordinates_in_z(cell, coordinates)
        min_z == SetMin({wrapped[i][3] : i \in 1..Len(wrapped)})
        deposited_coordinates_z ==
            {wrapped[i][3] : i \in {j \in 1..Len(wrapped) :
                                        elements[j] = deposited}}
    IN \E z \in deposited_coordinates_z : within_cutoff(abs(z - min_z), cutoff)

BondingInit ==
    /\ ControllerAtRest
    /\ call \in {[fn |-> "structural_analysis.check_bonding_at_image",
                  coordinates |-> st.coordinates, elements |-> st.elements,
                  outcome |-> "called"] : st \in LabelledStates}

\* structural_analysis.check_bonding_at_image
check_bonding_at_image ==
    /\ call.fn = "structural_analysis.check_bonding_at_image"
    /\ call.outcome = "called"
    /\ call' = [call EXCEPT !.outcome =
                  IF bonded_to_lower_interface(simulation_cell, call.coordinates,
                         call.elements, deposited_element,
                         bonding_distance_cutoff)
                    THEN "RuntimeWarning" ELSE "passed"]
    /\ UNCHANGED controller

BondingNext == check_bonding_at_image

BondingSpec == BondingInit /\ [][BondingNext]_vars

\* height of an atom once the top fifth of the cell is folded below it
WrappedZ(z) ==
    IF 5 * z > 4 * (simulation_cell.z_max - simulation_cell.z_min)
      THEN z - simulation_cell.z_vector[3] ELSE z

\* some atom of the deposited species is no further than the cutoff
\* above the lowest wrapped atom
DepositedNearInterface(coordinates, elements) ==
    LET lowest == SetMin({WrappedZ(coordinates[i][3]) :
                             i \in 1..Len(coordinates)})
    IN \E i \in 1..Len(coordinates) :
          /\ elements[i] = deposited_element
          /\ WrappedZ(coordinates[i][3]) - lowest <= bonding_distance_cutoff

\* C21: the interface-bonding check raises its warning exactly when, after
\* z-wrapping, an atom of the deposited species is at most
\* bonding_distance_cutoff (distance 0 included) from the lowest atom.
C21_BondingAtImage ==
    call.outcome # "called" =>
        (call.outcome = "RuntimeWarning"
           <=> DepositedNearInterface(call.coordinates, call.elements))

C21_Witness ==
    /\ call.fn = "structural_analysis.check_bonding_at_image"
    /\ call.outcome = "RuntimeWarning"
    /\ call.coordinates = <<<<0, 0, 0>>, <<0, 0, 9>>>>
    /\ call.elements = <<"Si", "O">>

\* ------------------------------------------- both checks on a bulk lattice
\* Simple cubic lattice of spacing 1 filling a cell two spacings wide; the
\* element is chosen per layer.
lattice_cell ==
    [x_vector |-> <<2, 0, 0>>, y_vector |-> <<0, 2, 0>>,
     z_vector |-> <<0, 0, 10>>, z_min |-> 0, z_max |-> 10]

MaxLayers == 4

\* atom k of the lattice: four per layer
LatticeSite(k) == <<(k - 1) % 2, ((k - 1) \div 2) % 2, (k - 1) \div 4>>

Lattices ==
    UNION {{[coordinates |-> [k \in 1..(4 * n) |-> LatticeSite(k)],
             elements |-> [k \in 1..(4 * n) |-> layer[((k - 1) \div 4) + 1]]] :
               layer \in [1..n -> Elements]} : n \in 2..MaxLayers}

LatticeInit ==
    /\ ControllerAtRest
    /\ call \in {[fn |-> "Iteration.check_outcome",
                  coordinates |-> l.coordinates, elements |-> l.elements,
                  deposition_type |-> t, outcome |-> "called",
                  success |-> FALSE] : l \in Lattices, t \in DepositionTypes}

\* Iteration.check_outcome, first call in the try block
check_outcome_min_neighbours ==
    /\ call.fn = "Iteration.check_outcome"
    /\ call.outcome = "called"
    /\ call' = [call EXCEPT !.outcome =
                  IF too_few_neighbours(
                         generate_neighbour_list(lattice_cell, call.coordinates,
                                                 bonding_distance_cutoff),
                         min_neighbours(call.deposition_type))
                    THEN "RuntimeWarning" ELSE "neighbours_passed"]
    /\ UNCHANGED controller

\* Iteration.check_outcome, second call in the try block, self.success
check_outcome_bonding_at_image ==
    /\ call.fn = "Iteration.check_outcome"
    /\ call.outcome = "neighbours_passed"
    /\ LET bonded == bonded_to_lower_interface(lattice_cell, call.coordinates,
                         call.elements, deposited_element,
                         bonding_distance_cutoff)
       IN call' = [call EXCEPT
                     !.outcome = IF bonded THEN "RuntimeWarning" ELSE "passed",
                     !.success = ~bonded]
    /\ UNCHANGED controller

LatticeNext ==
    \/ check_outcome_min_neighbours
    \/ check_outcome_bonding_at_image

LatticeSpec == LatticeInit /\ [][LatticeNext]_vars

\* every atom has more other atoms (periodic images included) within the
\* cutoff than the minimum asks for
WellBonded(coordinates, minimum) ==
    \A i \in 1..Len(coordinates) :
        get_all_neighbors(lattice_cell, coordinates,
                          bonding_distance_cutoff)[i] > minimum

\* C22: a well-bonded bulk lattice passes the minimum-neighbours check and
\* the interface-bonding check, whatever elements it is made of.
C22_BulkLatticePasses ==
    (/\ call.outcome \in {"passed", "RuntimeWarning"}
     /\ WellBonded(call.coordinates, min_neighbours(call.deposition_type)))
       => call.outcome = "passed"

\* ------------------------------------ distributions at settings validation
PositionDistributionEnum == {"fixed", "uniform"}
VelocityDistributionEnum == {"fixed", "gaussian"}

MaxArguments == 4

\* parameter lists as the schema admits them: lists of any length
ParameterLists == UNION {[1..n -> {0}] : n \in 0..MaxArguments}

\* class attribute num_arguments of each distribution
num_arguments(kind, name) ==
    IF kind = "position" THEN (IF name = "fixed" THEN 2 ELSE 0) ELSE 3

\* the constructors that assert len(arguments) == self.num_arguments:
\* all but UniformPositionDistribution.__init__
asserts_num_arguments(kind, name) == ~(kind = "position" /\ name = "uniform")

\* get_position_distribution / get_velocity_distribution: construct
construct(kind, name, arguments) ==
    IF asserts_num_arguments(kind, name)
         /\ Len(arguments) # num_arguments(kind, name)
      THEN "AssertionError" ELSE "constructed"

ValidateInit ==
    /\ ControllerAtRest
    /\ call \in {[fn |-> "Settings.validate",
                  position_distribution |-> p,
                  position_distribution_parameters |-> pp,
                  velocity_distribution |-> v,
                  velocity_distribution_parameters |-> vp,
                  outcome |-> "validating"] :
                    p \in PositionDistributionEnum, pp \in ParameterLists,
                    v \in VelocityDistributionEnum, vp \in ParameterLists}

\* Settings.validate: check that the position distribution has valid parameters
validate_position_distribution ==
    /\ call.fn = "Settings.validate"
    /\ call.outcome = "validating"
    /\ call' = [call EXCEPT !.outcome =
                  IF construct("position", call.position_distribution,
                         call.position_distribution_parameters) = "constructed"
                    THEN "position_valid" ELSE "AssertionError"]
    /\ UNCHANGED controller

\* Settings.validate: check that the velocity distribution has valid parameters
validate_velocity_distribution ==
    /\ call.fn = "Settings.validate"
    /\ call.outcome = "position_valid"
    /\ call' = [call EXCEPT !.outcome =
                  IF construct("velocity", call.velocity_distribution,
                         call.velocity_distribution_parameters) = "constructed"
                    THEN "valid" ELSE "AssertionError"]
    /\ UNCHANGED controller

ValidateNext ==
    \/ validate_position_distribution
    \/ validate_velocity_distribution

ValidateSpec == ValidateInit /\ [][ValidateNext]_vars

\* C23: settings pass validation only if the parameter list of the
\* position distribution and that of the velocity distribution each have
\* the number of entries their variant requires, for every variant.
C23_ArgumentCountChecked ==
    call.outcome = "valid" =>
        /\ Len(call.position_distribution_parameters)
             = num_arguments("position", call.position_distribution)
        /\ Len(call.velocity_distribution_parameters)
             = num_arguments("velocity", call.velocity_distribution)

\* ------------------------------------------------------- postprocessing
PostProcessingEnum == {"num_neighbours", "shift_to_origin"}

\* an orthogonal and a tilted cell (get_simulation_cell: z_min = 0)
tilted_cell ==
    [x_vector |-> <<8, 0, 0>>, y_vector |-> <<4, 8, 0>>,
     z_vector |-> <<4, 0, 10>>, z_min |-> 0, z_max |-> 10]
PostprocessingCells == {simulation_cell, tilted_cell}

PostprocessingPositions ==
    {<<x, y, z>> : x \in {1, 4}, y \in {0, 3}, z \in {0, 1, 9}}

\* state.State: coordinates, elements, velocities
State(coordinates, elements, velocities) ==
    [coordinates |-> coordinates, elements |-> elements,
     velocities |-> velocities]

PostprocessingStates ==
    {State(c, [i \in 1..Len(c) |-> IF i = 1 THEN "Si" ELSE "O"],
              [i \in 1..Len(c) |-> <<i, 0, 0 - i>>]) :
        c \in {d \in UNION {[1..n -> PostprocessingPositions] : n \in 1..MaxAtoms} :
                  \A i, j \in 1..Len(d) : i # j => d[i] # d[j]}}

\* NumNeighboursCheck.default_parameters, and a configured alternative
default_parameters == <<1, 4>>
NumNeighboursParameters == {default_parameters, <<0, 4>>}

\* utils.wrap_coordinates_in_z: atoms above 80 % of the cell height are
\* moved down by z_vector
wrap_coordinates_in_z(cell, coordinates) ==
    LET lz == cell.z_max - cell.z_min IN
    [i \in 1..Len(coordinates) |->
        IF 5 * coordinates[i][3] > 4 * lz
          THEN subtract(coordinates[i], cell.z_vector)
          ELSE coordinates[i]]

minima_FirstAtom(coordinates) == coordinates[1]

\* np.min(wrapped, axis=0)
minima(coordinates) ==
    <<SetMin({coordinates[i][1] : i \in 1..Len(coordinates)}),
      SetMin({coordinates[i][2] : i \in 1..Len(coordinates)}),
      SetMin({coordinates[i][3] : i \in 1..Len(coordinates)})>>

\* ShiftToOrigin.run: wrap in z, subtract the minima, build a new State
ShiftToOrigin(cell, state) ==
    LET wrapped == wrap_coordinates_in_z(cell, state.coordinates)
        lowest == minima(wrapped)
    IN State([i \in 1..Len(wrapped) |-> subtract(wrapped[i], lowest)],
             state.elements, state.velocities)

PostprocessingInit ==
    /\ ControllerAtRest
    /\ call \in {[fn |-> "postprocessing.run", name |-> n, cell |-> c,
                  parameters |-> p, state |-> st, outcome |-> "called",
                  result |-> st] :
                    n \in PostProcessingEnum, c \in PostprocessingCells,
                    p \in NumNeighboursParameters, st \in PostprocessingStates}

\* postprocessing.run("num_neighbours", ...): NumNeighboursCheck.run
run_num_neighbours ==
    /\ call.fn = "postprocessing.run"
    /\ call.name = "num_neighbours"
    /\ call.outcome = "called"
    /\ call' = IF too_few_neighbours(
                      get_all_neighbors(call.cell, call.state.coordinates,
                                        call.parameters[2]),
                      call.parameters[1])
                 THEN [call EXCEPT !.outcome = "RuntimeWarning"]
                 ELSE [call EXCEPT !.outcome = "returned", !.result = call.state]
    /\ UNCHANGED controller

\* postprocessing.run("shift_to_origin", ...): ShiftToOrigin.run
run_shift_to_origin ==
    /\ call.fn = "postprocessing.run"
    /\ call.name = "shift_to_origin"
    /\ call.outcome = "called"
    /\ call' = [call EXCEPT !.outcome = "returned",
                            !.result = ShiftToOrigin(call.cell, call.state)]
    /\ UNCHANGED controller

PostprocessingNext ==
    \/ run_num_neighbours
    \/ run_shift_to_origin

PostprocessingSpec == PostprocessingInit /\ [][PostprocessingNext]_vars

LowestOnAxis(coordinates, axis) ==
    SetMin({coordinates[i][axis] : i \in 1..Len(coordinates)})

\* C24: the State returned by postprocessing.run has as many atoms as the
\* input and the same elements and velocities; num_neighbours returns the
\* coordinates unchanged, and the coordinates returned by shift_to_origin
\* have the minimum 0 on each axis.
C24_PostprocessingFrame ==
    call.outcome = "returned" =>
        /\ Len(call.result.coordinates) = Len(call.state.coordinates)
        /\ call.result.elements = call.state.elements
        /\ call.result.velocities = call.state.velocities
        /\ call.name = "num_neighbours" =>
              call.result.coordinates = call.state.coordinates
        /\ call.name = "shift_to_origin" =>
              \A axis \in 1..3 : LowestOnAxis(call.result.coordinates, axis) = 0

C24_Witness ==
    /\ call.fn = "postprocessing.run"
    /\ call.name = "shift_to_origin"
    /\ call.outcome = "returned"
    /\ call.cell = tilted_cell
    /\ call.state.coordinates = <<<<4, 3, 1>>, <<1, 0, 9>>>>
    /\ call.result.coordinates = <<<<7, 3, 2>>, <<0, 0, 0>>>>

\* ------------------------------------------ properties of the controller
\* C25: the state reference of the checkpoint is carried unchanged over a
\* failed iteration and moved to the archived deposition output of
\* iteration n in the success directory when n was accepted; every
\* iteration starts from the reference of the checkpoint, and the
\* reference always names the initial state or an existing output of an
\* earlier accepted iteration.
C25_StateReference ==
    /\ [][(pc = "update" /\ pc' = "write_open") =>
            LET n == iteration.iteration_number
            IN IF Accepted
                 THEN /\ status'.pickle_location = n
                      /\ <<success_dir, n, Artifact("deposition.pickle", n)>>
                            \in archive_contents
                 ELSE status'.pickle_location = status.pickle_location]_vars
    /\ [][(pc = "loop" /\ pc' = "relaxation") =>
            iteration'.pickle_location = status.pickle_location]_vars
    /\ [](status # None =>
            /\ PickleExists(status.pickle_location)
            /\ status.pickle_location < status.iteration_number)
    /\ [](Stored.result = "ok" =>
            PickleExists(Stored.status.pickle_location))

C25_Witness ==
    /\ pc = "relaxation"
    /\ status = Status(3, 1, 1, 1)
    /\ iteration.pickle_location = 1
    /\ 1 \in success_archive
    /\ 2 \in failure_archive

\* ------------------------------------------------------- surface height
SurfaceHeights == {0 - 1, 0, 3, 5, 7, 8, 9}

\* states of 1..MaxAtoms atoms anywhere in the cell (z_min = 0)
SurfaceStates ==
    UNION {[1..n -> {<<0, 0, z>> : z \in SurfaceHeights}] : n \in 1..MaxAtoms}

SurfaceInit ==
    /\ ControllerAtRest
    /\ call \in {[fn |-> "structural_analysis.get_surface_height",
                  coordinates |-> c, outcome |-> "called",
                  surface_height |-> 0] : c \in SurfaceStates}

\* get_surface_height: max(z), ValueError when z is the empty list
surface_height ==
    /\ call.fn = "structural_analysis.get_surface_height"
    /\ call.outcome = "called"
    /\ call' = IF below_cutoff(cell_lz, call.coordinates) = {}
                 THEN [call EXCEPT !.outcome = "ValueError"]
                 ELSE [call EXCEPT !.outcome = "returned",
                         !.surface_height =
                             get_surface_height(cell_lz, call.coordinates)]
    /\ UNCHANGED controller

SurfaceNext == surface_height

SurfaceSpec == SurfaceInit /\ [][SurfaceNext]_vars

\* z is in the lower 80 % of the cell
InLowerPart(z) == 5 * z < 4 * cell_lz

\* C26: get_surface_height returns, for every state, the z of an atom in
\* the lower 80 % of the cell that no other atom of the lower 80 % exceeds.
C26_SurfaceHeightDefined ==
    call.outcome # "called" =>
        /\ call.outcome = "returned"
        /\ InLowerPart(call.surface_height)
        /\ \E i \in 1..Len(call.coordinates) :
              call.coordinates[i][3] = call.surface_height
        /\ \A i \in 1..Len(call.coordinates) :
              InLowerPart(call.coordinates[i][3]) =>
                  call.coordinates[i][3] <= call.surface_height

\* ------------------------------------------------------- neighbour list
NeighbourListCells == {simulation_cell, tilted_cell}

NeighbourListPositions == {<<x, 0, z>> : x \in {0, 1, 4}, z \in {0, 8, 9}}

\* states of 1..MaxAtoms atoms at different positions, some of them at and
\* above 80 % of the cell height
NeighbourListStates ==
    {c \in UNION {[1..n -> NeighbourListPositions] : n \in 1..MaxAtoms} :
        \A i, j \in 1..Len(c) : i # j => c[i] # c[j]}

NeighbourListInit ==
    /\ ControllerAtRest
    /\ call \in {[fn |-> "structural_analysis.generate_neighbour_list",
                  cell |-> cell, coordinates |-> c, outcome |-> "called",
                  wrapped |-> <<>>, coordinates_periodic_xy |-> <<>>,
                  neighbour_list |-> <<>>] :
                     cell \in NeighbourListCells, c \in NeighbourListStates}

\* structural_analysis.generate_neighbour_list with the two lists it builds
\* on the way
neighbour_list ==
    /\ call.fn = "structural_analysis.generate_neighbour_list"
    /\ call.outcome = "called"
    /\ LET wrapped == wrap_periodic_coordinates_in_z(call.cell, call.coordinates)
       IN call' = [call EXCEPT
             !.outcome = "returned",
             !.wrapped = wrapped,
             !.coordinates_periodic_xy =
                 generate_periodic_images_xy(call.cell, wrapped),
             !.neighbour_list =
                 generate_neighbour_list(call.cell, call.coordinates,
                                         bonding_distance_cutoff)]
    /\ UNCHANGED controller

NeighbourListNext == neighbour_list

NeighbourListSpec == NeighbourListInit /\ [][NeighbourListNext]_vars

\* the atom strictly above 80 % of the cell height moved down by z_vector,
\* any other atom where it is
WrappedAtom(cell, xyz) ==
    IF 10 * xyz[3] > 8 * (cell.z_max - cell.z_min)
      THEN <<xyz[1] - cell.z_vector[1], xyz[2] - cell.z_vector[2],
             xyz[3] - cell.z_vector[3]>>
      ELSE xyz

\* the copy of the wrapped atom j in the cell i along x and k along y
XYImage(cell, coordinates, j, i, k) ==
    LET w == WrappedAtom(cell, coordinates[j])
    IN <<w[1] + i * cell.x_vector[1] + k * cell.y_vector[1],
         w[2] + i * cell.x_vector[2] + k * cell.y_vector[2],
         w[3] + i * cell.x_vector[3] + k * cell.y_vector[3]>>

XYCopies(n) == (1..n) \X {0 - 1, 0, 1} \X {0 - 1, 0, 1}

SquaredDistance(a, b) ==
    (a[1] - b[1]) * (a[1] - b[1]) + (a[2] - b[2]) * (a[2] - b[2])
      + (a[3] - b[3]) * (a[3] - b[3])

\* C27: the z-wrapping moves exactly the atoms above the 80 % cutoff down by
\* z_vector; the image list holds each of the 9 xy copies of each wrapped
\* atom exactly once; the neighbour list has one count per atom, the number
\* of those copies closer than the bonding cutoff to the wrapped atom.
C27_NeighbourListImages ==
    call.outcome = "returned" =>
        LET n == Len(call.coordinates)
            images == call.coordinates_periodic_xy
        IN /\ Len(call.wrapped) = n
           /\ \A j \in 1..n :
                 call.wrapped[j] = WrappedAtom(call.cell, call.coordinates[j])
           /\ Len(images) = 9 * n
           /\ \A c \in XYCopies(n) :
                 LET p == XYImage(call.cell, call.coordinates, c[1], c[2], c[3])
                 IN Cardinality({m \in 1..Len(images) : images[m] = p})
                      = Cardinality({d \in XYCopies(n) :
                            XYImage(call.cell, call.coordinates,
                                    d[1], d[2], d[3]) = p})
           /\ Len(call.neighbour_list) = n
           /\ \A j \in 1..n :
                 call.neighbour_list[j] =
                   Cardinality({c \in XYCopies(n) :
                       SquaredDistance(
                           WrappedAtom(call.cell, call.coordinates[j]),
                           XYImage(call.cell, call.coordinates,
                                   c[1], c[2], c[3]))
                         < bonding_distance_cutoff * bonding_distance_cutoff})

\* an atom at the top of the tilted cell is wrapped below the atom it is
\* bonded to; the atom at exactly 80 % stays
C27_Witness ==
    /\ call.fn = "structural_analysis.generate_neighbour_list"
    /\ call.outcome = "returned"
    /\ call.cell = tilted_cell
    /\ call.coordinates = <<<<4, 0, 9>>, <<0, 0, 0>>>>
    /\ call.wrapped = <<<<0, 0, 0 - 1>>, <<0, 0, 0>>>>
    /\ Len(call.coordinates_periodic_xy) = 18
    /\ call.neighbour_list = <<2, 2>>

\* --------------------------------------- restarts of a finished campaign
\* the counters of the checkpoint are past one of the two limits
Terminated(s) ==
    \/ s.iteration_number > max_iterations
    \/ s.sequential_failures > max_failures

\* C28: no iteration is started, and no engine is run, while the counters
\* are past the maximum number of iterations or of sequential failures.
C28_NoIterationAfterTermination ==
    (pc \in {"relaxation", "deposition"} /\ status # None)
        => ~Terminated(status)

\* the archive directories of iteration k
ArchivesOf(k) ==
    (IF k \in success_archive THEN {success_dir} ELSE {})
      \cup (IF k \in failure_archive THEN {failure_dir} ELSE {})

\* finalisation found the archive directory of its iteration on the disk
ArchivedAgain ==
    /\ pc = "crashed"
    /\ error = "FileExistsError"
    /\ Len(events) = 4

\* C29: every iteration below the iteration_number of the status file has
\* exactly one archive directory, and finalisation never meets an archive
\* directory that is already there.
C29_ArchivedExactlyOnce ==
    /\ Stored.result = "ok" =>
          \A k \in 1..(Stored.status.iteration_number - 1) :
              Cardinality(ArchivesOf(k)) = 1
    /\ ~ArchivedAgain

\* -------------------------------------------------------------- drivers
\* One Python process: the class attributes of the two driver base classes
\* and the driver objects constructed so far.
MaxDrivers == 3

\* schema_validation.GLOBALLY_RESERVED_KEYWORDS and the initial
\* molecular_dynamics_driver.MolecularDynamicsDriver._reserved_keywords
GLOBALLY_RESERVED_KEYWORDS == <<"filename">>

\* driver classes built on drivers/molecular_dynamics_driver.py
SnakeCaseDrivers == {"MolecularDynamicsDriver", "TemplateDriver"}

\* driver classes built on drivers/MolecularDynamicsDriver.py
CamelCaseDrivers == {"LAMMPSDriver", "GULPDriver"}

\* the keywords a driver class reserves for itself: the reserved_keywords
\* it passes on, or the Use(reserved_keyword) entries of its schema
reserved_keywords(class) ==
    IF class = "TemplateDriver" THEN <<"simulation_time">>
    ELSE IF class = "LAMMPSDriver" THEN <<"num_steps">>
    ELSE IF class = "GULPDriver"
      THEN <<"production_time_picoseconds", "thermostat_damping", "x_size",
             "y_size", "z_size", "alpha", "beta", "gamma">>
    ELSE <<>>

Range(seq) == {seq[i] : i \in 1..Len(seq)}

\* self.schema.validate(driver_settings) followed by the two simulation
\* times utils.get_molecular_dynamics_driver adds
validated_settings(class) ==
    {<<"name", class>>, <<"relaxation_time_picoseconds", 1>>,
     <<"deposition_time_picoseconds", 2>>}

\* dict.update
update(dict, key, value) ==
    {kv \in dict : kv[1] # key} \cup {<<key, value>>}

get(dict, key) == (CHOOSE kv \in dict : kv[1] = key)[2]

Stages == {"relaxation", "deposition"}

DriverInit ==
    /\ ControllerAtRest
    /\ call = [fn |-> "drivers",
               base_reserved_keywords |-> GLOBALLY_RESERVED_KEYWORDS,
               generic_schema_dict |-> {},
               drivers |-> <<>>]

Driver(class) ==
    [class |-> class, validated |-> validated_settings(class),
     settings |-> validated_settings(class)]

\* molecular_dynamics_driver.MolecularDynamicsDriver.__init__: the keywords
\* are appended to the list that is an attribute of the class
molecular_dynamics_driver_init ==
    /\ call.fn = "drivers"
    /\ Len(call.drivers) < MaxDrivers
    /\ \E class \in SnakeCaseDrivers :
         call' = [call EXCEPT
            !.base_reserved_keywords = @ \o reserved_keywords(class),
            !.drivers = Append(@, Driver(class))]
    /\ UNCHANGED controller

\* MolecularDynamicsDriver.MolecularDynamicsDriver.__init__: the entries are
\* added to the dictionary that is an attribute of the class
MolecularDynamicsDriver_init ==
    /\ call.fn = "drivers"
    /\ Len(call.drivers) < MaxDrivers
    /\ \E class \in CamelCaseDrivers :
         call' = [call EXCEPT
            !.generic_schema_dict = @ \cup Range(reserved_keywords(class)),
            !.drivers = Append(@, Driver(class))]
    /\ UNCHANGED controller

\* GULPDriver.write_inputs: template_values = self.settings, then updated
GULP_template_values(self_settings, filename, stage) ==
    LET production ==
            update(self_settings, "production_time_ps",
                   get(self_settings, IF stage = "relaxation"
                                        THEN "relaxation_time_picoseconds"
                                        ELSE "deposition_time_picoseconds"))
        named == update(production, "filename", filename)
        damped == update(named, "thermostat_damping", "thermostat_damping")
    IN damped \cup {<<k, k>> : k \in {"x_size", "y_size", "z_size",
                                       "alpha", "beta", "gamma"}}

\* write_inputs of driver i: GULPDriver fills self.settings itself, the
\* LAMMPS and template drivers fill a copy
write_inputs ==
    /\ call.fn = "drivers"
    /\ \E i \in 1..Len(call.drivers), stage \in Stages :
         /\ call.drivers[i].class # "MolecularDynamicsDriver"
         /\ call' = [call EXCEPT !.drivers[i].settings =
               IF call.drivers[i].class = "GULPDriver"
                 THEN GULP_template_values(@, stage, stage)
                 ELSE @]
    /\ UNCHANGED controller

DriverNext ==
    \/ molecular_dynamics_driver_init
    \/ MolecularDynamicsDriver_init
    \/ write_inputs

DriverSpec == DriverInit /\ [][DriverNext]_vars

\* molecular_dynamics_driver.get_reserved_keywords
get_reserved_keywords == call.base_reserved_keywords

\* C30: every driver's reserved keywords are the global ones followed by
\* those of its class, each once, whichever drivers were constructed before
\* it, and its settings are the validated settings after any number of
\* write_inputs calls.
C30_DriversDoNotInterfere ==
    call.fn = "drivers" =>
      \A i \in 1..Len(call.drivers) :
        LET class == call.drivers[i].class IN
        /\ class \in SnakeCaseDrivers =>
              get_reserved_keywords
                = GLOBALLY_RESERVED_KEYWORDS \o reserved_keywords(class)
        /\ class \in CamelCaseDrivers =>
              call.generic_schema_dict \ Range(GLOBALLY_RESERVED_KEYWORDS)
                = Range(reserved_keywords(class))
        /\ call.drivers[i].settings = call.drivers[i].validated

====
